---- MODULE Spec2Model ----
(***************************************************************************)
(* Model of the progress panel of crimelapse (ProgressPanel.vue): the      *)
(* subscription to the "progress:<jobId>" event channel, the pending       *)
(* record that coalesces the payloads, the throttled flush timer and the   *)
(* committed (displayed) state with its trimmed detail log.                *)
(*                                                                         *)
(* Everything runs on one event loop, so every handler below is one        *)
(* atomic action.  The only suspension point inside a handler is the       *)
(* `await listen(...)` of startListening: the part before it is the        *)
(* action Bind (or the initial state, for the immediate watcher call),     *)
(* the part after it is the action ListenResolved.                         *)
(***************************************************************************)
EXTENDS Integers, Sequences, FiniteSets, Bags, TLC

(* ------------------------------ values -------------------------------- *)

\* null of a `number | null` variable, and a payload field whose typeof is
\* not "number".  Payload numbers are drawn from the naturals.
NULL == -1

\* progressUnlisten holding an UnlistenFn; which listener it releases is the
\* "held" one of subs.
TOKEN == 1

\* payload.detail === undefined
AbsentDetail == "~absent"

\* props.jobId when the parent has no job (undefined / null).
NoJob == "null"

\* Job handles returned by start_job.
Handles == {"h1", "h2"}

JobIds == Handles \cup {NoJob}

\* Bounds of the model.
MaxSubs == 2      \* listeners registered at once (resolved or in flight)
MaxIngest == 3    \* payloads delivered between two binds
MaxWindow == 2    \* payloads merged into one pending record
MaxJobs == 3      \* jobs the page starts

\* const jobId = ref<unknown>(): undefined until the first assignment.
Undefined == -2

\* details.value.length > 10500 ... slice(length - 10000).  The two numbers
\* of the source are scaled down to keep the log small; the code depends
\* only on 0 < KeepLines < TrimThreshold.
TrimThreshold == 2
KeepLines == 1

Payload(p, i, t, d) ==
    [progress |-> p, progressInc |-> i, total |-> t, detail |-> d]

EmptyPayload == Payload(NULL, NULL, NULL, AbsentDetail)

\* The payloads the job engine publishes in this model.
Payloads ==
    { EmptyPayload,
      Payload(2, NULL, 3, ""),
      Payload(NULL, 1, NULL, "a"),
      Payload(1, 2, 1, "b") }

(* ------------------------------ state --------------------------------- *)

VARIABLES
    mounted,             \* the component is mounted (watcher active)
    jobId,               \* props.jobId
    completed,           \* completed.value
    total,               \* total.value
    details,             \* details.value
    flushHandle,         \* timer id or NULL
    progressUnlisten,    \* NULL or TOKEN (an UnlistenFn)
    pendingCompleted,
    pendingIncrement,
    pendingTotal,
    pendingDetailIndex,
    pendingDetails,
    timers,              \* host: ids of the timeouts set and not yet fired/cleared
    subs,                \* host: bag of the listeners registered by listen()
    \* history variables (not read by the program)
    lastOp,              \* the handler that ran last
    lastChan,            \* channel of the payload ingested last
    window,              \* payloads merged since the pending record was last emptied
    arrived,             \* texts of the lines numbered since the last bind
    nIngest,             \* payloads ingested since the last bind
    discarded,           \* the last handler was a bind that found data to discard
    flushed,             \* the window the last handler flushed (after a flush)
    pre,                 \* the committed state before that flush
    \* ComputePage.vue
    isWorking,           \* isWorking.value
    pageJobId,           \* jobId.value of the page
    jobs,                \* host: status of the jobs started, by handle
    startReplies,        \* host: handles of the start_job calls not yet resolved
    cancelReplies,       \* host: number of cancel_job calls not yet resolved
    \* history variables of the page
    startedLast,         \* handle of the job the last onStartJob started
    cancelArg,           \* jobId argument of the last cancel_job
    cancelMeant          \* the job that onStopJob was to stop

progVars == <<mounted, jobId, completed, total, details, flushHandle,
              progressUnlisten, pendingCompleted, pendingIncrement,
              pendingTotal, pendingDetailIndex, pendingDetails, timers, subs>>
histVars == <<lastOp, lastChan, window, arrived, nIngest, discarded, flushed, pre>>
pageVars == <<isWorking, pageJobId, jobs, startReplies, cancelReplies,
              startedLast, cancelArg, cancelMeant>>
vars == <<progVars, histVars, pageVars>>

(* ----------------------------- helpers -------------------------------- *)

\* typeof x === "number"
IsNumber(x) == x # NULL

\* Variant: the test written as payload.detail !== "".
TruthyNotEmptyString(d) == d # ""

\* if (payload.detail): undefined and "" are falsy.
Truthy(d) == d # AbsentDetail /\ d # ""

\* `[${pendingDetailIndex}] ${payload.detail}`: the line as the pair of the
\* number printed between the brackets and the text after them.
FormatLine(n, d) == <<n, d>>

\* window.setTimeout returns an id no outstanding timeout has.
FreshId(used) ==
    CHOOSE i \in 1..(Cardinality(used) + 1) :
        /\ i \notin used
        /\ \A j \in 1..(i - 1) : j \in used

\* A listener registered by listen(): its channel and how the component can
\* still reach its UnlistenFn:
\*   "inflight"  the promise of listen() has not resolved yet,
\*   "held"      progressUnlisten is its UnlistenFn,
\*   "leaked"    its UnlistenFn was assigned and then overwritten uncalled.
Sub(c, st) == [chan |-> c, st |-> st]

HeldSubs == {s \in BagToSet(subs) : s.st = "held"}

\* progressUnlisten?.(): removes the listener the token was returned for; a
\* token already called, or the optional call on null, removes nothing.
Unlisten ==
    IF progressUnlisten = NULL THEN subs ELSE subs (-) SetToBag(HeldSubs)

\* progressUnlisten = <token>: the listener of the token stored before, if
\* still registered, can no longer be released.
Overwrite(b) ==
    (b (-) SetToBag(HeldSubs))
        (+) SetToBag({Sub(s.chan, "leaked") : s \in HeldSubs})

\* if (typeof payload.progress === "number") pendingCompleted = payload.progress
MergeProgress(cur, p) == IF IsNumber(p.progress) THEN p.progress ELSE cur

\* Variant: the increment assigned (=) instead of accumulated (+=).
MergeIncrementOverwrites(cur, p) ==
    IF IsNumber(p.progressInc) THEN p.progressInc ELSE cur

\* if (typeof payload.progressInc === "number") pendingIncrement += payload.progressInc
MergeIncrement(cur, p) ==
    IF IsNumber(p.progressInc) THEN cur + p.progressInc ELSE cur

\* Variant: a pending total is not overwritten (the first one wins).
MergeTotalFirstWins(cur, p) ==
    IF IsNumber(p.total) /\ cur = NULL THEN p.total ELSE cur

\* if (typeof payload.total === "number") pendingTotal = payload.total
MergeTotal(cur, p) == IF IsNumber(p.total) THEN p.total ELSE cur

\* Variant: the increment applied first, the absolute value written over it.
CommitCompletedAbsoluteLast(c, pc, pi) ==
    LET inc == IF pi # 0 THEN c + pi ELSE c
    IN  IF pc # NULL THEN pc ELSE inc

\* flushProgressUpdates on completed.value: the pending absolute value
\* first, the pending increment on top of it.
CommitCompleted(c, pc, pi) ==
    LET base == IF pc # NULL THEN pc ELSE c
    IN  IF pi # 0 THEN base + pi ELSE base

\* Variant: the kept lines numbered again from 1, as a display that numbers
\* the lines by their position would.
TrimDetailsRenumbers(d) ==
    IF Len(d) > TrimThreshold
    THEN [i \in 1..KeepLines |-> FormatLine(i, d[Len(d) - KeepLines + i][2])]
    ELSE d

\* Variant: the oldest lines kept, the newest evicted.
TrimDetailsKeepsOldest(d) ==
    IF Len(d) > TrimThreshold
    THEN SubSeq(d, 1, KeepLines)
    ELSE d

\* Variant: the log never trimmed.
TrimDetailsNever(d) == d

\* if (length > 10500) details = details.slice(length - 10000)
TrimDetails(d) ==
    IF Len(d) > TrimThreshold
    THEN SubSeq(d, Len(d) - KeepLines + 1, Len(d))
    ELSE d

(* ------------------------- the component's code ----------------------- *)

\* Variant: the fraction clamped to 1.
linearProgressClamped ==
    IF total = 0 THEN <<0, 1>>
    ELSE IF completed > total THEN <<1, 1>> ELSE <<completed, total>>

\* computed linearProgress: 0 when total is 0, else completed / total. The
\* quotient is kept as <<numerator, denominator>>.
linearProgress ==
    IF total = 0 THEN <<0, 1>> ELSE <<completed, total>>

\* :indeterminate="total === 0" of q-linear-progress
indeterminate == total = 0

\* Variant: the handle forgotten without clearTimeout.
CancelFlushTimerNoClear ==
    /\ flushHandle' = NULL
    /\ UNCHANGED timers

CancelFlushTimer ==
    IF flushHandle # NULL
    THEN /\ timers' = timers \ {flushHandle}
         /\ flushHandle' = NULL
    ELSE UNCHANGED <<timers, flushHandle>>

\* Variant: the accumulated increment and the pending lines forgotten.
ResetPendingPartial ==
    /\ pendingCompleted' = NULL
    /\ pendingTotal' = NULL
    /\ pendingDetailIndex' = 0
    /\ UNCHANGED <<pendingIncrement, pendingDetails>>

ResetPending ==
    /\ pendingCompleted' = NULL
    /\ pendingIncrement' = 0
    /\ pendingTotal' = NULL
    /\ pendingDetailIndex' = 0
    /\ pendingDetails' = <<>>

\* Variant: the log kept over the reset.
ClearDisplayedProgressKeepsLog ==
    /\ completed' = 0
    /\ total' = 0
    /\ UNCHANGED details

ClearDisplayedProgress ==
    /\ completed' = 0
    /\ total' = 0
    /\ details' = <<>>

\* Variant: the accumulated increment kept after it was applied.
FlushProgressUpdatesKeepsIncrement ==
    /\ total' = IF pendingTotal # NULL THEN pendingTotal ELSE total
    /\ pendingTotal' = NULL
    /\ completed' = CommitCompleted(completed, pendingCompleted, pendingIncrement)
    /\ pendingCompleted' = NULL
    /\ details' = IF Len(pendingDetails) = 0
                  THEN details
                  ELSE TrimDetails(details \o pendingDetails)
    /\ pendingDetails' = <<>>
    /\ UNCHANGED <<pendingIncrement, pendingDetailIndex>>

FlushProgressUpdates ==
    /\ total' = IF pendingTotal # NULL THEN pendingTotal ELSE total
    /\ pendingTotal' = NULL
    /\ completed' = CommitCompleted(completed, pendingCompleted, pendingIncrement)
    /\ pendingCompleted' = NULL
    /\ pendingIncrement' = 0
    /\ details' = IF Len(pendingDetails) = 0
                  THEN details
                  ELSE TrimDetails(details \o pendingDetails)
    /\ pendingDetails' = <<>>
    /\ UNCHANGED pendingDetailIndex

\* Variant: no test of flushHandle, every call sets a timeout.
ScheduleProgressFlushAlways ==
    LET id == FreshId(timers)
    IN  /\ flushHandle' = id
        /\ timers' = timers \cup {id}

ScheduleProgressFlush ==
    IF flushHandle # NULL
    THEN UNCHANGED <<flushHandle, timers>>
    ELSE LET id == FreshId(timers)
         IN  /\ flushHandle' = id
             /\ timers' = timers \cup {id}

\* The listener passed to listen(): merges one payload into the pending
\* record and schedules the flush.
Listener(p) ==
    /\ pendingCompleted' = MergeProgress(pendingCompleted, p)
    /\ pendingIncrement' = MergeIncrement(pendingIncrement, p)
    /\ pendingTotal' = MergeTotal(pendingTotal, p)
    /\ IF Truthy(p.detail)
       THEN /\ pendingDetailIndex' = pendingDetailIndex + 1
            /\ pendingDetails' =
                   Append(pendingDetails, FormatLine(pendingDetailIndex + 1, p.detail))
       ELSE UNCHANGED <<pendingDetailIndex, pendingDetails>>
    /\ ScheduleProgressFlush

\* startListening up to its await: the resets, the release of the stored
\* token and the call of listen() for the channel of jobId `h`.
StartListening(h) ==
    /\ ClearDisplayedProgress
    /\ ResetPending
    /\ CancelFlushTimer
    /\ subs' = Unlisten (+) SetToBag({Sub(h, "inflight")})
    /\ UNCHANGED progressUnlisten

(* ------------------------------ actions ------------------------------- *)

\* History kept by the handlers that are neither a bind nor a flush.
NoBindNoFlush ==
    /\ discarded' = FALSE
    /\ flushed' = <<>>
    /\ pre' = [completed |-> 0, total |-> 0, details |-> <<>>]

\* watch(() => props.jobId, ...): the parent changes the prop.
Bind(h) ==
    /\ UNCHANGED pageVars
    /\ mounted
    /\ h # jobId
    /\ BagCardinality(subs) < MaxSubs
    /\ jobId' = h
    /\ StartListening(h)
    /\ lastOp' = "bind"
    /\ lastChan' = NoJob
    /\ window' = <<>>
    /\ arrived' = <<>>
    /\ nIngest' = 0
    /\ discarded' = (flushHandle # NULL /\ window # <<>> /\ completed # 0)
    /\ flushed' = <<>>
    /\ pre' = [completed |-> 0, total |-> 0, details |-> <<>>]
    /\ UNCHANGED mounted

\* The promise of listen() resolves: progressUnlisten = <its token>.
ListenResolved(s) ==
    /\ UNCHANGED pageVars
    /\ s \in BagToSet(subs)
    /\ s.st = "inflight"
    /\ progressUnlisten' = TOKEN
    /\ subs' = (Overwrite(subs) (-) SetToBag({s})) (+) SetToBag({Sub(s.chan, "held")})
    /\ lastOp' = "resolved"
    /\ lastChan' = NoJob
    /\ NoBindNoFlush
    /\ UNCHANGED <<mounted, jobId, completed, total, details, flushHandle,
                   pendingCompleted, pendingIncrement, pendingTotal,
                   pendingDetailIndex, pendingDetails, timers>>
    /\ UNCHANGED <<window, arrived, nIngest>>

\* The job engine emits payload p on the channel of a registered listener,
\* whose handler runs.
Deliver(s, p) ==
    /\ UNCHANGED pageVars
    /\ s \in BagToSet(subs)
    /\ s.chan \in Handles
    /\ nIngest < MaxIngest
    /\ Len(window) < MaxWindow
    /\ Listener(p)
    /\ lastOp' = "ingest"
    /\ lastChan' = s.chan
    /\ window' = Append(window, p)
    /\ arrived' = IF p.detail # AbsentDetail /\ p.detail # ""
                  THEN Append(arrived, p.detail)
                  ELSE arrived
    /\ nIngest' = nIngest + 1
    /\ NoBindNoFlush
    /\ UNCHANGED <<mounted, jobId, completed, total, details, progressUnlisten, subs>>

\* Variant: the callback runs the flush but leaves flushHandle set.
TimerFiredKeepsHandle(t) ==
    /\ UNCHANGED pageVars
    /\ t \in timers
    /\ timers' = timers \ {t}
    /\ FlushProgressUpdates
    /\ lastOp' = "flush"
    /\ lastChan' = NoJob
    /\ window' = <<>>
    /\ discarded' = FALSE
    /\ flushed' = window
    /\ pre' = [completed |-> completed, total |-> total, details |-> details]
    /\ UNCHANGED <<mounted, jobId, progressUnlisten, subs, flushHandle>>
    /\ UNCHANGED <<arrived, nIngest>>

\* The timeout set by scheduleProgressFlush fires.
TimerFired(t) ==
    /\ UNCHANGED pageVars
    /\ t \in timers
    /\ timers' = timers \ {t}
    /\ flushHandle' = NULL
    /\ FlushProgressUpdates
    /\ lastOp' = "flush"
    /\ lastChan' = NoJob
    /\ window' = <<>>
    /\ discarded' = FALSE
    /\ flushed' = window
    /\ pre' = [completed |-> completed, total |-> total, details |-> details]
    /\ UNCHANGED <<mounted, jobId, progressUnlisten, subs>>
    /\ UNCHANGED <<arrived, nIngest>>

\* onBeforeUnmount
Unmount ==
    /\ UNCHANGED pageVars
    /\ mounted
    /\ mounted' = FALSE
    /\ CancelFlushTimer
    /\ subs' = Unlisten
    /\ progressUnlisten' = NULL
    /\ lastOp' = "unmount"
    /\ lastChan' = NoJob
    /\ NoBindNoFlush
    /\ UNCHANGED <<jobId, completed, total, details, pendingCompleted,
                   pendingIncrement, pendingTotal, pendingDetailIndex,
                   pendingDetails>>
    /\ UNCHANGED <<window, arrived, nIngest>>

\* After setup: the immediate watcher call has run startListening(props.jobId)
\* up to its await.
Init ==
    /\ mounted = TRUE
    /\ jobId \in JobIds
    /\ completed = 0
    /\ total = 0
    /\ details = <<>>
    /\ flushHandle = NULL
    /\ progressUnlisten = NULL
    /\ pendingCompleted = NULL
    /\ pendingIncrement = 0
    /\ pendingTotal = NULL
    /\ pendingDetailIndex = 0
    /\ pendingDetails = <<>>
    /\ timers = {}
    /\ subs = SetToBag({Sub(jobId, "inflight")})
    /\ lastOp = "bind"
    /\ lastChan = NoJob
    /\ window = <<>>
    /\ arrived = <<>>
    /\ nIngest = 0
    /\ discarded = FALSE
    /\ flushed = <<>>
    /\ pre = [completed |-> 0, total |-> 0, details |-> <<>>]
    /\ isWorking = FALSE
    /\ pageJobId = Undefined
    /\ jobs = <<>>
    /\ startReplies = {}
    /\ cancelReplies = 0
    /\ startedLast = NULL
    /\ cancelArg = NULL
    /\ cancelMeant = NULL

Next ==
    \/ \E h \in JobIds : Bind(h)
    \/ \E s \in BagToSet(subs) : ListenResolved(s)
    \/ \E s \in BagToSet(subs) : \E p \in Payloads : Deliver(s, p)
    \/ \E t \in timers : TimerFired(t)
    \/ Unmount

Spec == Init /\ [][Next]_vars

\* The parent assigns props.jobId the value it already has: the source of
\* the watcher is unchanged, so its callback (startListening) does not run.
SameJobId ==
    /\ UNCHANGED pageVars
    /\ mounted
    /\ lastOp' = "same"
    /\ lastChan' = NoJob
    /\ NoBindNoFlush
    /\ UNCHANGED progVars
    /\ UNCHANGED <<window, arrived, nIngest>>

NextSame == Next \/ SameJobId

\* The panel with a parent that also re-assigns the same job handle.
SpecSame == Init /\ [][NextSame]_vars

(* --------------------------- ComputePage.vue -------------------------- *)

\* The handles start_job has returned or will return: jobs are numbered in
\* the order they are started.
Started == 1..Len(jobs)

\* cancel_job in the job engine: a running job with that handle is cancelled,
\* any other argument cancels nothing.
CancelJob(arg) ==
    IF arg \in Started THEN [jobs EXCEPT ![arg] = "cancelled"] ELSE jobs

\* Click on Process (rendered while !isWorking): isWorking = true, then
\* invoke("start_job") up to its await. The engine starts the job.
onStartJob ==
    /\ ~isWorking
    /\ Len(jobs) < MaxJobs
    /\ isWorking' = TRUE
    /\ jobs' = Append(jobs, "running")
    /\ startReplies' = startReplies \cup {Len(jobs) + 1}
    /\ startedLast' = Len(jobs) + 1
    /\ UNCHANGED <<pageJobId, cancelReplies, cancelArg, cancelMeant>>
    /\ UNCHANGED <<progVars, histVars>>

\* The promise of invoke("start_job") resolves: jobId.value = <handle>.
StartJobResolved(h) ==
    /\ h \in startReplies
    /\ pageJobId' = h
    /\ startReplies' = startReplies \ {h}
    /\ UNCHANGED <<isWorking, jobs, cancelReplies, startedLast, cancelArg, cancelMeant>>
    /\ UNCHANGED <<progVars, histVars>>

\* @stop of the progress panel (rendered while isWorking): isWorking = false,
\* then invoke("cancel_job", {jobId: jobId.value}) up to its await.
onStopJob ==
    /\ isWorking
    /\ isWorking' = FALSE
    /\ jobs' = CancelJob(pageJobId)
    /\ cancelReplies' = cancelReplies + 1
    /\ cancelArg' = pageJobId
    /\ cancelMeant' = startedLast
    /\ UNCHANGED <<pageJobId, startReplies, startedLast>>
    /\ UNCHANGED <<progVars, histVars>>

\* The promise of invoke("cancel_job") resolves: jobId.value = null.
CancelJobResolved ==
    /\ cancelReplies > 0
    /\ pageJobId' = NULL
    /\ cancelReplies' = cancelReplies - 1
    /\ UNCHANGED <<isWorking, jobs, startReplies, startedLast, cancelArg, cancelMeant>>
    /\ UNCHANGED <<progVars, histVars>>

InitPage == Init /\ jobId = NoJob

NextPage ==
    \/ onStartJob
    \/ \E h \in startReplies : StartJobResolved(h)
    \/ onStopJob
    \/ CancelJobResolved

\* The page's job control; the panel is left as it is after setup.
SpecPage == InitPage /\ [][NextPage]_vars

(* ------------------------------ claims -------------------------------- *)

RECURSIVE SumInc(_)
\* Sum of the progressInc fields of a sequence of payloads.
SumInc(w) ==
    IF w = <<>> THEN 0
    ELSE (IF w[1].progressInc # NULL THEN w[1].progressInc ELSE 0) + SumInc(Tail(w))

\* Index of the last payload of w that carries progress (0 if none).
LastProgressAt(w) ==
    LET idx == {i \in 1..Len(w) : w[i].progress # NULL}
    IN  IF idx = {} THEN 0 ELSE CHOOSE i \in idx : \A j \in idx : j <= i

\* Index of the last payload of w that carries total (0 if none).
LastTotalAt(w) ==
    LET idx == {i \in 1..Len(w) : w[i].total # NULL}
    IN  IF idx = {} THEN 0 ELSE CHOOSE i \in idx : \A j \in idx : j <= i

\* Texts of the lines the payloads of w produce.
LineTexts(w) ==
    LET keep == SelectSeq(w, LAMBDA q : q.detail # AbsentDetail /\ q.detail # "")
    IN  [i \in 1..Len(keep) |-> keep[i].detail]

PendingEmpty ==
    /\ pendingCompleted = NULL
    /\ pendingIncrement = 0
    /\ pendingTotal = NULL
    /\ pendingDetails = <<>>

CommittedZero ==
    /\ completed = 0
    /\ total = 0
    /\ details = <<>>

\* The pending record holds exactly the merge of the payloads of `window`.
PendingIsWindow ==
    /\ pendingCompleted =
           (IF LastProgressAt(window) = 0 THEN NULL
            ELSE window[LastProgressAt(window)].progress)
    /\ pendingIncrement = SumInc(window)
    /\ pendingTotal =
           (IF LastTotalAt(window) = 0 THEN NULL
            ELSE window[LastTotalAt(window)].total)
    /\ [i \in 1..Len(pendingDetails) |-> pendingDetails[i][2]] = LineTexts(window)

\* C1: right after a bind to another handle the committed state is zero, the
\* pending record is empty and no timer is armed; and nothing ingested before
\* the bind is committed afterwards: as long as no payload arrived since the
\* bind the display stays zero with no timer armed, and at any time the
\* pending record is the merge of payloads that arrived since the bind only.
RebindResetsState ==
    /\ lastOp = "bind" => CommittedZero /\ PendingEmpty /\ flushHandle = NULL /\ timers = {}
    /\ nIngest = 0 => CommittedZero /\ PendingEmpty /\ timers = {}
    /\ Len(window) <= nIngest
    /\ PendingIsWindow

\* A bind has just discarded a non-zero display, a non-empty pending record
\* and an armed timer.
RebindResetsStateWitness == lastOp = "bind" /\ discarded /\ jobId \in Handles

\* C2: a payload is merged only if it was published on the channel of the
\* handle bound last.
NoCrossJobLeakage == lastOp = "ingest" => lastChan = jobId

\* Listeners whose listen() has resolved.
LiveSubs == {s \in BagToSet(subs) : s.st # "inflight"}

\* C3: at most one established subscription, for the handle bound last, and
\* no established subscription whose token was dropped without being called.
AtMostOneSubscription ==
    /\ BagCardinality([s \in LiveSubs |-> CopiesIn(s, subs)]) <= 1
    /\ \A s \in LiveSubs : s.chan = jobId /\ s.st = "held"

\* C4: at most one timeout is outstanding, and it is the one flushHandle
\* names; so the ingests of one window are flushed by one timer.
AtMostOneTimer ==
    /\ Cardinality(timers) <= 1
    /\ flushHandle = NULL <=> timers = {}
    /\ flushHandle # NULL => timers = {flushHandle}

\* Two payloads were ingested in the window of one armed timer.
AtMostOneTimerWitness ==
    lastOp = "ingest" /\ Len(window) = 2 /\ flushHandle # NULL

\* C5: a flush of a window without absolute progress adds exactly the sum of
\* the window's increments to completed; the increments pending are the sum
\* of the current window only, so no flush applies an increment twice.
IncrementsExact ==
    /\ pendingIncrement = SumInc(window)
    /\ (lastOp = "flush" /\ LastProgressAt(flushed) = 0)
           => completed = pre.completed + SumInc(flushed)

\* A second flush that committed two increments on top of a non-zero value.
IncrementsExactWitness ==
    /\ lastOp = "flush"
    /\ Len(flushed) = 2
    /\ LastProgressAt(flushed) = 0
    /\ SumInc(flushed) = 2
    /\ pre.completed = 2

\* The window is an absolute progress followed by increments: its last
\* absolute value comes before every increment of the window.
AbsoluteThenIncrements(w) ==
    /\ LastProgressAt(w) # 0
    /\ \A i \in 1..(LastProgressAt(w) - 1) : w[i].progressInc = NULL

\* C6: the flush of a window made of an absolute progress a followed by
\* increments summing to d leaves completed = a + d, whatever it was before.
AbsoluteThenIncrement ==
    (lastOp = "flush" /\ AbsoluteThenIncrements(flushed))
        => completed = flushed[LastProgressAt(flushed)].progress + SumInc(flushed)

\* Such a flush over a non-zero completed that differs from the result.
AbsoluteThenIncrementWitness ==
    /\ lastOp = "flush"
    /\ AbsoluteThenIncrements(flushed)
    /\ LastProgressAt(flushed) = 1
    /\ SumInc(flushed) > 0
    /\ pre.completed > 0

\* The committed log followed by the lines still pending.
AllLines == details \o pendingDetails

\* C7: the numbers along the committed log and the pending lines are
\* strictly increasing, the line numbered n is the n-th line that arrived
\* since the bind, the counter is the number of lines arrived (no flush or
\* eviction resets it) and the newest line is never evicted.
SequenceNumbersFollowArrival ==
    /\ \A i \in 1..(Len(AllLines) - 1) : AllLines[i][1] < AllLines[i + 1][1]
    /\ \A i \in 1..Len(AllLines) :
           /\ AllLines[i][1] \in 1..Len(arrived)
           /\ AllLines[i][2] = arrived[AllLines[i][1]]
    /\ pendingDetailIndex = Len(arrived)
    /\ arrived # <<>> => AllLines # <<>> /\ AllLines[Len(AllLines)][1] = Len(arrived)

\* A flush of one more line has just evicted the oldest lines: the log
\* starts after line 1.
SequenceNumbersFollowArrivalWitness ==
    /\ details # <<>>
    /\ details[1][1] > 1
    /\ lastOp = "flush"
    /\ Len(flushed) = 1

\* C8 as stated: the log never holds more than KeepLines (L_max) lines and
\* holds exactly KeepLines after a flush once more than that many arrived.
BoundedLogExact ==
    /\ Len(details) <= KeepLines
    /\ (lastOp = "flush" /\ Len(arrived) > KeepLines) => Len(details) = KeepLines

\* C8 amended: the log never holds more than TrimThreshold lines; a flush
\* that takes it past TrimThreshold cuts it to exactly KeepLines; after a
\* flush once more than KeepLines lines arrived it holds between KeepLines
\* and TrimThreshold lines.
BoundedLogThreshold ==
    /\ Len(details) <= TrimThreshold
    /\ (lastOp = "flush" /\ Len(arrived) > KeepLines) => Len(details) >= KeepLines
    /\ (lastOp = "flush" /\ LineTexts(flushed) # <<>>
            /\ Len(pre.details) + Len(LineTexts(flushed)) > TrimThreshold)
           => Len(details) = KeepLines

\* A flush has just cut the log.
BoundedLogThresholdWitness ==
    /\ lastOp = "flush"
    /\ Len(pre.details) + Len(LineTexts(flushed)) > TrimThreshold
    /\ Len(details) = KeepLines

\* The step ingests the empty payload.
IngestsEmptyPayload ==
    /\ lastOp' = "ingest"
    /\ window' = Append(window, EmptyPayload)

\* The step leaves the pending record and the committed state as they are.
DataUnchanged ==
    UNCHANGED <<completed, total, details, pendingCompleted, pendingIncrement,
                pendingTotal, pendingDetailIndex, pendingDetails>>

\* C9 as stated: the empty payload changes neither pending nor committed
\* state and leaves an idle timer idle.
EmptyPayloadNoOp ==
    [][IngestsEmptyPayload =>
           /\ DataUnchanged
           /\ flushHandle = NULL => flushHandle' = NULL]_vars

\* C9 amended: the empty payload changes neither pending nor committed
\* state; it leaves an armed timer as it is and arms an idle one, and the
\* flush of a window of empty payloads changes nothing.
EmptyPayloadArmsOnly ==
    /\ [][IngestsEmptyPayload =>
              /\ DataUnchanged
              /\ flushHandle # NULL => UNCHANGED <<flushHandle, timers>>
              /\ flushHandle = NULL => flushHandle' # NULL /\ timers' = {flushHandle'}]_vars
    /\ []((lastOp = "flush" /\ \A i \in 1..Len(flushed) : flushed[i] = EmptyPayload)
              => /\ completed = pre.completed
                 /\ total = pre.total
                 /\ details = pre.details)

\* A timer armed by an empty payload alone.
EmptyPayloadArmsOnlyWitness ==
    /\ lastOp = "ingest"
    /\ window = <<EmptyPayload>>
    /\ flushHandle # NULL

\* C10: once the listen() of a bind without job handle has resolved, no
\* listener is registered.
BindNullUnsubscribed ==
    (lastOp = "resolved" /\ \E s \in HeldSubs : s.chan = NoJob)
        => BagToSet(subs) = {}

\* C11: in every state after the unmount no timer is armed, the pending
\* record is empty and no listener is registered.
TeardownReleasesEverything ==
    ~mounted => /\ flushHandle = NULL
                /\ timers = {}
                /\ PendingEmpty
                /\ BagToSet(subs) = {}

\* The timeout of the host fires some time after it was set, unless cleared.
SpecFair == Spec /\ WF_vars(\E t \in timers : TimerFired(t))

\* C12: while the panel stays mounted, pending data is eventually flushed
\* (or discarded by a rebind): a flush leaves nothing pending, its window
\* committed.
EventualConvergence ==
    /\ (mounted /\ ~PendingEmpty) ~> (PendingEmpty \/ ~mounted)
    /\ [](lastOp = "flush" => PendingEmpty /\ window = <<>>)

\* A flush has committed a window of two payloads of a mounted panel.
EventualConvergenceWitness ==
    /\ mounted
    /\ lastOp = "flush"
    /\ Len(flushed) = 2
    /\ PendingEmpty
    /\ completed # 0

\* C13: a flush commits the total of the last payload of its window that
\* carries one and leaves total as it was when none does; it commits the
\* absolute progress of the last payload that carries one (with the
\* window's increments on top); the values of earlier payloads are not kept
\* in the pending record.
LastWriteWins ==
    /\ pendingTotal =
           (IF LastTotalAt(window) = 0 THEN NULL
            ELSE window[LastTotalAt(window)].total)
    /\ pendingCompleted =
           (IF LastProgressAt(window) = 0 THEN NULL
            ELSE window[LastProgressAt(window)].progress)
    /\ lastOp = "flush" =>
           /\ total = (IF LastTotalAt(flushed) = 0 THEN pre.total
                       ELSE flushed[LastTotalAt(flushed)].total)
           /\ LastProgressAt(flushed) # 0 =>
                  completed = flushed[LastProgressAt(flushed)].progress
                                  + SumInc(flushed)

\* A flush of two payloads with different totals and different absolute
\* values committed the total of the second one.
LastWriteWinsWitness ==
    /\ lastOp = "flush"
    /\ Len(flushed) = 2
    /\ flushed[1].total # NULL
    /\ flushed[2].total # NULL
    /\ flushed[1].total # flushed[2].total
    /\ flushed[1].progress # flushed[2].progress
    /\ flushed[1].progress # NULL
    /\ flushed[2].progress # NULL
    /\ total = flushed[2].total

\* C14: a flush runs only as the firing of the one timeout flushHandle names
\* and consumes it; after the flush no timer is armed; after an ingest one
\* is armed (the first ingest after a flush arms it again); after a bind or
\* the unmount no timeout is left that could fire.
TimerSubMachine ==
    /\ [][lastOp' = "flush" =>
              /\ flushHandle # NULL
              /\ timers = {flushHandle}
              /\ timers' = {}
              /\ flushHandle' = NULL]_vars
    /\ [](lastOp = "flush" => flushHandle = NULL /\ timers = {})
    /\ [](lastOp = "ingest" => flushHandle # NULL /\ timers = {flushHandle})
    /\ [](lastOp \in {"bind", "unmount"} => flushHandle = NULL /\ timers = {})

\* The first ingest after a flush has armed the timer again.
TimerSubMachineWitness ==
    /\ lastOp = "ingest"
    /\ nIngest = 2
    /\ Len(window) = 1
    /\ details # <<>>
    /\ flushHandle # NULL

\* A bind has reset everything and called listen() for the new handle, with
\* the listener of the stored token released.
FullReset ==
    /\ CommittedZero
    /\ PendingEmpty
    /\ pendingDetailIndex = 0
    /\ flushHandle = NULL
    /\ timers = {}
    /\ HeldSubs = {}
    /\ CopiesIn(Sub(jobId, "inflight"), subs) >= 1

\* C15 as stated: every bind, also one that passes the handle already bound,
\* is a full reset.
EveryBindResets == lastOp \in {"bind", "same"} => FullReset

\* C15 amended: a bind that changes the handle is a full reset; passing the
\* handle already bound changes nothing.
BindResetsOnChange ==
    /\ [](lastOp = "bind" => FullReset)
    /\ [][lastOp' = "same" => UNCHANGED progVars]_vars

\* The handle already bound was passed again while a display, pending data
\* and an armed timer existed, and they are still there.
BindResetsOnChangeWitness ==
    /\ lastOp = "same"
    /\ completed # 0
    /\ ~PendingEmpty
    /\ flushHandle # NULL

RECURSIVE ReplayCompleted(_, _)
\* completed after the payloads of w applied one at a time to c: progress
\* overwrites, progressInc adds.
ReplayCompleted(c, w) ==
    IF w = <<>> THEN c
    ELSE LET a == IF w[1].progress # NULL THEN w[1].progress ELSE c
             b == IF w[1].progressInc # NULL THEN a + w[1].progressInc ELSE a
         IN  ReplayCompleted(b, Tail(w))

RECURSIVE ReplayTotal(_, _)
\* total after the payloads of w applied one at a time to t.
ReplayTotal(t, w) ==
    IF w = <<>> THEN t
    ELSE ReplayTotal(IF w[1].total # NULL THEN w[1].total ELSE t, Tail(w))

\* C16: a flush leaves completed and total as applying the payloads of its
\* window one at a time, in arrival order, to the state before would.
ArrivalOrderEquivalence ==
    lastOp = "flush" =>
        /\ completed = ReplayCompleted(pre.completed, flushed)
        /\ total = ReplayTotal(pre.total, flushed)

\* C17: an ingested payload whose detail is present, the empty string
\* included, advances the sequence counter by one and appends one pending
\* line; a payload without detail leaves the counter and the pending lines
\* unchanged.
PresentDetailNumbered ==
    [][lastOp' = "ingest" =>
        LET p == window'[Len(window')]
        IN  IF p.detail # AbsentDetail
            THEN /\ pendingDetailIndex' = pendingDetailIndex + 1
                 /\ Len(pendingDetails') = Len(pendingDetails) + 1
                 /\ SubSeq(pendingDetails', 1, Len(pendingDetails)) = pendingDetails
            ELSE /\ pendingDetailIndex' = pendingDetailIndex
                 /\ pendingDetails' = pendingDetails]_vars

\* Sequence number of the last line handed over by a flush: the counter less
\* the lines still pending.
LastFlushedNumber == pendingDetailIndex - Len(pendingDetails)

\* s is a suffix of t.
IsSuffix(s, t) ==
    /\ Len(s) <= Len(t)
    /\ s = SubSeq(t, Len(t) - Len(s) + 1, Len(t))

\* The log before the last flush followed by the lines of its window, numbered
\* as they arrived.
LogBeforeEviction ==
    LET new == LineTexts(flushed)
    IN  pre.details \o
        [i \in 1..Len(new) |-> <<LastFlushedNumber - Len(new) + i, new[i]>>]

\* C18: the committed log is a contiguous increasing run of sequence numbers
\* ending at the last flushed line; a flush leaves a suffix of the log before
\* it followed by the lines of its window, so eviction removes the oldest
\* lines only and the lines kept have the number and the text of their
\* arrival.
EvictionKeepsSuffix ==
    /\ \A i \in 1..Len(details) :
           details[i][1] = LastFlushedNumber - Len(details) + i
    /\ lastOp = "flush" =>
           /\ IsSuffix(details, LogBeforeEviction)
           /\ Len(details) < Len(LogBeforeEviction) => Len(details) = KeepLines

\* A flush of two lines onto a log of one evicted the two oldest lines and
\* kept the third under its number.
EvictionKeepsSuffixWitness ==
    /\ lastOp = "flush"
    /\ Len(pre.details) = 1
    /\ Len(LineTexts(flushed)) = 2
    /\ Len(details) = 1
    /\ details[1][1] = 3

\* C19: an ingest leaves the committed state, the subscription and the handle
\* alone; completed, total and the log change only in a flush or a bind; a
\* flush leaves the pending record empty and the sequence counter unchanged.
IngestAndFlushFrames ==
    /\ [][lastOp' = "ingest" =>
              UNCHANGED <<completed, total, details, mounted, jobId,
                          progressUnlisten, subs>>]_vars
    /\ [][<<completed, total, details>>' # <<completed, total, details>> =>
              lastOp' \in {"flush", "bind"}]_vars
    /\ [][lastOp' = "flush" =>
              /\ pendingCompleted' = NULL
              /\ pendingIncrement' = 0
              /\ pendingTotal' = NULL
              /\ pendingDetails' = <<>>
              /\ pendingDetailIndex' = pendingDetailIndex]_vars

\* A flush committed one payload that set every field: the pending record is
\* empty again and the counter still counts the line.
IngestAndFlushFramesWitness ==
    /\ lastOp = "flush"
    /\ flushed = <<Payload(1, 2, 1, "b")>>
    /\ completed = 3
    /\ total = 1
    /\ pendingDetailIndex = 1
    /\ PendingEmpty

\* C20: whenever the pending record is not empty a flush timer is armed.
NoStrandedPending ==
    ~PendingEmpty => flushHandle # NULL /\ flushHandle \in timers

\* C22: with total 0 the bar is indeterminate and no quotient by zero is
\* formed; with total other than 0 the fraction is completed / total as it
\* is, above 1 when completed exceeds total.
IndeterminateTotal ==
    /\ linearProgress[2] # 0
    /\ total = 0 => indeterminate /\ linearProgress = <<0, 1>>
    /\ total # 0 =>
           /\ ~indeterminate
           /\ linearProgress[1] = completed
           /\ linearProgress[2] = total

\* Increments overshot the total: the fraction shown is 3 / 1.
IndeterminateTotalWitness ==
    /\ mounted
    /\ total = 1
    /\ completed = 3
    /\ linearProgress[1] > linearProgress[2]

\* C21: cancel_job is invoked with the handle of the job that the stop was to
\* stop, and while the page is idle jobId does not hold the handle of a job
\* that is still running.
JobControlConsistent ==
    /\ cancelMeant # NULL => cancelArg = cancelMeant
    /\ ~isWorking => ~(pageJobId \in Started /\ jobs[pageJobId] = "running")

====
